---- MODULE Spec2Model ----
(***************************************************************************)
(* Model of sf_streamlit_utils: the connection lifecycle manager and       *)
(* get_connection_manager (connection.py), the helpers read_df, write_df   *)
(* and stage_dataframe (helpers.py), the configuration resolver and        *)
(* to_dict (config.py) and cached_read_df with its cache key (cache.py).   *)
(***************************************************************************)
EXTENDS Integers, Sequences, FiniteSets, TLC

(***************************************************************************)
(* Bounds                                                                  *)
(***************************************************************************)
NThreads == 2      \* threads sharing one manager
MaxCreate == 3     \* connector.connect calls explored per behaviour
MaxCalls == 3      \* get_connection calls started per behaviour, all threads together
MaxParams == 2     \* bind parameters in one mapping
MaxHelperCalls == 2  \* helper calls made one after another by the script

Threads == 1..NThreads

VARIABLES
  \* SnowflakeConnectionManager
  connection,   \* self._connection: 0 is None, else an index into handles
  lockOwner,    \* self._lock: 0 is free, else the thread holding it
  handles,      \* every handle connector.connect has returned so far
  pred,         \* pred[i]: value of self._connection that handle i replaced
  creations,    \* number of _create_connection calls made so far
  calls,        \* number of get_connection calls started so far
  \* one caller per thread
  pc, op, overwrite, phase, ret, prev, prevLive, conn, nCreate, made, seen, wlog,
  \* resolve_config
  cpc, heap, explicit, secrets, environ, loaded, base, snap, resolved,
  mgrConfig,    \* manager.config of the manager built from the resolved object
  kwargs,       \* what a to_dict() call returned, and for which object
  \* cached_read_df / execute parameter handling
  kpc, params, hashed, bind, sent,
  \* the helpers and get_connection_manager
  stAvail,        \* streamlit can be imported (st is not None)
  pdAvail,        \* pandas can be imported (pd is not None)
  globalManager,  \* _global_manager: 0 is None, else an index into managers
  stCache,        \* st.cache_resource entries of _get_cached_manager
  managers,       \* every manager _create_manager has built, by its config argument
  glog,           \* the get_connection_manager calls made: argument and result
  hpc, hcall, cursor, result,
  tmpFiles,       \* the temporary files that exist on disk
  hcalls          \* number of helper calls started so far

mgrVars == <<connection, lockOwner, handles, pred, creations, calls>>
thrVars == <<pc, op, overwrite, phase, ret, prev, prevLive, conn, nCreate, made, seen, wlog>>
cfgVars == <<cpc, heap, explicit, secrets, environ, loaded, base, snap, resolved,
             mgrConfig, kwargs>>
keyVars == <<kpc, params, hashed, bind, sent>>
hlpVars == <<stAvail, pdAvail, globalManager, stCache, managers, glog,
             hpc, hcall, cursor, result, tmpFiles, hcalls>>
vars == <<mgrVars, thrVars, cfgVars, keyVars, hlpVars>>

(***************************************************************************)
(* Connection handles.  A handle is what connector.connect returned; the   *)
(* manager only ever probes it through is_closed / closed.                 *)
(*   shape "method":   is_closed is callable and returns is_closed         *)
(*   shape "property": is_closed is a plain non-None value                 *)
(*   shape "raises":   calling is_closed raises                            *)
(*   shape "missing":  the handle has no is_closed attribute               *)
(* closed is the value of the handle's closed attribute (FALSE also when   *)
(* the attribute does not exist: getattr(conn, "closed", False)).          *)
(***************************************************************************)
NewHandles ==
  { [shape |-> "method",   is_closed |-> FALSE, closed |-> FALSE],
    [shape |-> "method",   is_closed |-> TRUE,  closed |-> TRUE] }

\* What the handle itself reports through is_closed.
Reports(h) ==
  IF h.shape \in {"method", "property"}
  THEN (IF h.is_closed THEN "closed" ELSE "live")
  ELSE "unknown"

Live(h) == Reports(h) = "live"

IsClosed_Pessimistic(h) ==
  CASE h.shape = "method"   -> h.is_closed
    [] h.shape = "property" -> h.is_closed
    [] h.shape = "raises"   -> TRUE
    [] h.shape = "missing"  -> TRUE

\* SnowflakeConnectionManager._is_closed for a handle that is not None
IsClosed(h) ==
  CASE h.shape = "method"   -> h.is_closed
    [] h.shape = "property" -> h.is_closed
    [] h.shape = "raises"   -> h.closed
    [] h.shape = "missing"  -> h.closed

CanAcquire_NoLock(t) == TRUE

\* threading.RLock: free, or already held by the caller
CanAcquire(t) == lockOwner \in {0, t}

Stale_Always(t) == TRUE

Stale_Unlocked(t) == seen[t] # 0

\* line 94: the liveness check made while holding the lock
Stale(t) == IsClosed(handles[connection])

AfterFirstCreate_NoRetry(h) == "return"

\* lines 88-92: the handle created for an absent connection is checked once
AfterFirstCreate(h) == IF IsClosed(h) THEN "create_retry" ELSE "return"

Truncates_Always(ow) == TRUE

\* helpers.py line 203: if overwrite
Truncates(ow) == ow

OnCreateError_Retry(p) == IF p = "create_first" THEN "create_retry" ELSE "raised"

\* lines 48-63 and 86-97: nothing in _create_connection or get_connection
\* catches what import_module's RuntimeError or connector.connect raises
OnCreateError(p) == "raised"

FailedAssign_Cleared(c) == 0

\* lines 88, 92, 96: self._connection = self._create_connection() assigns
\* nothing when the right-hand side raises; the field keeps its value c
FailedAssign(c) == c

WithExit_Held(t) == t

\* line 86: leaving the with self._lock block, by return or by exception,
\* releases the lock
WithExit(t) == 0

Creating == {"create_first", "create_retry", "create_replace"}

MgrInit ==
  /\ connection = 0
  /\ lockOwner = 0
  /\ handles = <<>>
  /\ pred = <<>>
  /\ creations = 0
  /\ calls = 0
  /\ pc = [t \in Threads |-> "idle"]
  /\ op = [t \in Threads |-> "none"]
  /\ overwrite = [t \in Threads |-> FALSE]
  /\ phase = [t \in Threads |-> 0]
  /\ ret = [t \in Threads |-> 0]
  /\ prev = [t \in Threads |-> 0]
  /\ prevLive = [t \in Threads |-> FALSE]
  /\ conn = [t \in Threads |-> 0]
  /\ nCreate = [t \in Threads |-> 0]
  /\ made = [t \in Threads |-> <<>>]
  /\ seen = [t \in Threads |-> 0]
  /\ wlog = [t \in Threads |-> <<>>]

\* The stale handle, if any, that the manager holds when a get_connection
\* call begins (0 when the field is None or the handle is not stale).
Seen == IF connection # 0 /\ IsClosed(handles[connection]) THEN connection ELSE 0

\* Where the caller of get_connection goes on once it has returned:
\* get_connection itself is done; execute goes on to the cursor (line 101);
\* write_df goes on to its import (helpers.py line 191), or, when the call
\* came from the truncate's manager.execute, to the cursor.
AfterReturn(t) ==
  CASE op[t] = "get" -> "done"
    [] op[t] = "execute" -> "cursor"
    [] op[t] = "write" /\ phase[t] = 1 -> "w_import"
    [] op[t] = "write" /\ phase[t] = 2 -> "cursor"

\* A thread whose previous operation is over calls manager.get_connection(),
\* manager.execute(sql) or write_df(..., overwrite=ow); each begins with a
\* get_connection call.  prev is the handle the thread's previous
\* get_connection call returned.
Call(t, o, ow) ==
  /\ pc[t] \in {"idle", "done", "raised"}
  /\ calls < MaxCalls
  /\ calls' = calls + 1
  /\ pc' = [pc EXCEPT ![t] = "acquire"]
  /\ op' = [op EXCEPT ![t] = o]
  /\ overwrite' = [overwrite EXCEPT ![t] = ow]
  /\ phase' = [phase EXCEPT ![t] = 1]
  /\ prev' = [prev EXCEPT ![t] = IF pc[t] = "done" THEN ret[t] ELSE 0]
  /\ ret' = [ret EXCEPT ![t] = 0]
  /\ prevLive' = [prevLive EXCEPT ![t] = FALSE]
  /\ conn' = [conn EXCEPT ![t] = 0]
  /\ nCreate' = [nCreate EXCEPT ![t] = 0]
  /\ made' = [made EXCEPT ![t] = <<>>]
  /\ seen' = [seen EXCEPT ![t] = Seen]
  /\ wlog' = [wlog EXCEPT ![t] = <<>>]
  /\ UNCHANGED <<connection, lockOwner, handles, pred, creations>>
  /\ UNCHANGED <<cfgVars, keyVars, hlpVars>>

\* get_connection lines 86-87 and 93-97: take the lock and choose the
\* branch.  With a handle that is not stale the call returns it and leaves
\* the with block at once; otherwise the thread enters _create_connection
\* holding the lock.
Enter(t) ==
  /\ pc[t] = "acquire"
  /\ CanAcquire(t)
  /\ prevLive' = [prevLive EXCEPT ![t] = prev[t] # 0 /\ Live(handles[prev[t]])]
  /\ IF connection = 0
     THEN /\ lockOwner' = t
          /\ pc' = [pc EXCEPT ![t] = "create_first"]
          /\ UNCHANGED <<ret, conn>>
     ELSE IF Stale(t)
     THEN /\ lockOwner' = t
          /\ pc' = [pc EXCEPT ![t] = "create_replace"]
          /\ UNCHANGED <<ret, conn>>
     ELSE /\ ret' = [ret EXCEPT ![t] = connection]
          /\ conn' = [conn EXCEPT ![t] = IF op[t] = "write" /\ phase[t] = 1
                                         THEN connection ELSE @]
          /\ pc' = [pc EXCEPT ![t] = AfterReturn(t)]
          /\ lockOwner' = WithExit(t)
  /\ UNCHANGED <<connection, handles, pred, creations, calls>>
  /\ UNCHANGED <<op, overwrite, phase, prev, nCreate, made, seen, wlog>>
  /\ UNCHANGED <<cfgVars, keyVars, hlpVars>>

\* _create_connection returns a handle, which is stored in self._connection
\* (lines 88, 92, 96).  After line 88 the new handle is checked (line 90) and
\* created again when closed; otherwise the call returns the handle and
\* leaves the with block (line 97).
CreateOk(t, h) ==
  /\ pc[t] \in Creating
  /\ creations < MaxCreate
  /\ handles' = Append(handles, h)
  /\ pred' = Append(pred, connection)
  /\ connection' = Len(handles) + 1
  /\ creations' = creations + 1
  /\ nCreate' = [nCreate EXCEPT ![t] = @ + 1]
  /\ made' = [made EXCEPT ![t] =
                Append(@, [h |-> Len(handles) + 1, closed |-> Reports(h) = "closed"])]
  /\ IF pc[t] = "create_first" /\ AfterFirstCreate(h) = "create_retry"
     THEN /\ pc' = [pc EXCEPT ![t] = "create_retry"]
          /\ UNCHANGED <<lockOwner, ret, conn>>
     ELSE /\ ret' = [ret EXCEPT ![t] = Len(handles) + 1]
          /\ conn' = [conn EXCEPT ![t] = IF op[t] = "write" /\ phase[t] = 1
                                         THEN Len(handles) + 1 ELSE @]
          /\ lockOwner' = WithExit(t)
          /\ pc' = [pc EXCEPT ![t] = AfterReturn(t)]
  /\ UNCHANGED <<calls, op, overwrite, phase, prev, prevLive, seen, wlog>>
  /\ UNCHANGED <<cfgVars, keyVars, hlpVars>>

\* _create_connection raises (import error or connector.connect failure):
\* the exception leaves the with block, which releases the lock, and
\* propagates to the caller.
CreateFail(t) ==
  /\ pc[t] \in Creating
  /\ creations < MaxCreate
  /\ creations' = creations + 1
  /\ nCreate' = [nCreate EXCEPT ![t] = @ + 1]
  /\ lockOwner' = WithExit(t)
  /\ pc' = [pc EXCEPT ![t] = OnCreateError(pc[t])]
  /\ connection' = FailedAssign(connection)
  /\ UNCHANGED <<handles, pred, calls>>
  /\ UNCHANGED <<op, overwrite, phase, ret, prev, prevLive, conn, made, seen, wlog>>
  /\ UNCHANGED <<cfgVars, keyVars, hlpVars>>

\* write_df lines 191-197: the lazy import of write_pandas; it either works
\* or raises RuntimeError.  Lines 203-206: with overwrite the truncate is
\* issued through manager.execute, which calls get_connection again.
Import(t, ok) ==
  /\ pc[t] = "w_import"
  /\ IF ~ok
     THEN /\ pc' = [pc EXCEPT ![t] = "raised"]
          /\ UNCHANGED <<phase, ret, prev, nCreate, made, seen, calls>>
     ELSE IF Truncates(overwrite[t])
     THEN /\ calls < MaxCalls
          /\ calls' = calls + 1
          /\ pc' = [pc EXCEPT ![t] = "acquire"]
          /\ phase' = [phase EXCEPT ![t] = 2]
          /\ prev' = [prev EXCEPT ![t] = ret[t]]
          /\ ret' = [ret EXCEPT ![t] = 0]
          /\ nCreate' = [nCreate EXCEPT ![t] = 0]
          /\ made' = [made EXCEPT ![t] = <<>>]
          /\ seen' = [seen EXCEPT ![t] = Seen]
     ELSE /\ pc' = [pc EXCEPT ![t] = "w_write"]
          /\ UNCHANGED <<phase, ret, prev, nCreate, made, seen, calls>>
  /\ UNCHANGED <<op, overwrite, prevLive, conn, wlog>>
  /\ UNCHANGED <<connection, lockOwner, handles, pred, creations>>
  /\ UNCHANGED <<cfgVars, keyVars, hlpVars>>

\* execute lines 101-103: conn.cursor() and cur.execute(sql, params or None)
\* on the handle get_connection returned, outside the lock.  In write_df the
\* statement is the TRUNCATE TABLE of line 205.
Cursor(t) ==
  /\ pc[t] = "cursor"
  /\ pc' = [pc EXCEPT ![t] = IF op[t] = "write" THEN "w_write" ELSE "done"]
  /\ wlog' = [wlog EXCEPT ![t] =
                IF op[t] = "write"
                THEN Append(@, [ev |-> "truncate", h |-> ret[t]]) ELSE @]
  /\ UNCHANGED <<op, overwrite, phase, ret, prev, prevLive, conn, nCreate, made, seen>>
  /\ UNCHANGED <<mgrVars, cfgVars, keyVars, hlpVars>>

\* conn.cursor() raises (issued = FALSE) or cur.execute raises after the
\* statement was sent (issued = TRUE); the error propagates unchanged.
CursorFail(t, issued) ==
  /\ pc[t] = "cursor"
  /\ pc' = [pc EXCEPT ![t] = "raised"]
  /\ wlog' = [wlog EXCEPT ![t] =
                IF op[t] = "write" /\ issued
                THEN Append(@, [ev |-> "truncate", h |-> ret[t]]) ELSE @]
  /\ UNCHANGED <<op, overwrite, phase, ret, prev, prevLive, conn, nCreate, made, seen>>
  /\ UNCHANGED <<mgrVars, cfgVars, keyVars, hlpVars>>

\* write_df lines 207-216: write_pandas(conn, ...) with the handle obtained
\* at line 190.
WritePandas(t) ==
  /\ pc[t] = "w_write"
  /\ pc' = [pc EXCEPT ![t] = "done"]
  /\ wlog' = [wlog EXCEPT ![t] = Append(@, [ev |-> "write_pandas", h |-> conn[t]])]
  /\ UNCHANGED <<op, overwrite, phase, ret, prev, prevLive, conn, nCreate, made, seen>>
  /\ UNCHANGED <<mgrVars, cfgVars, keyVars, hlpVars>>

\* The session behind the manager's current handle is closed (server side or
\* client side): from now on the handle reports closed.
CloseHandle ==
  /\ connection # 0
  /\ ~handles[connection].closed
  /\ handles' = [handles EXCEPT ![connection] =
                   [shape |-> @.shape,
                    is_closed |-> @.shape \in {"method", "property"},
                    closed |-> TRUE]]
  /\ UNCHANGED <<connection, lockOwner, pred, creations, calls>>
  /\ UNCHANGED <<thrVars, cfgVars, keyVars, hlpVars>>

\* The manager's public methods, called by any thread at any time.
Ops == {"get", "execute"}

MgrNext ==
  \/ \E t \in Threads, o \in Ops : Call(t, o, FALSE)
  \/ \E t \in Threads : Enter(t)
  \/ \E t \in Threads, h \in NewHandles : CreateOk(t, h)
  \/ \E t \in Threads : CreateFail(t)
  \/ \E t \in Threads : Cursor(t)
  \/ \E t \in Threads, issued \in BOOLEAN : CursorFail(t, issued)
  \/ CloseHandle

\* write_df calls made one after another by the thread that runs the
\* application script, against a manager whose session may be closed at any
\* point.
OnlyCaller(t) == \A u \in Threads \ {t} : pc[u] = "idle"

WriteNext ==
  \/ \E t \in Threads, ow \in BOOLEAN : OnlyCaller(t) /\ Call(t, "write", ow)
  \/ \E t \in Threads : Enter(t)
  \/ \E t \in Threads, h \in NewHandles : CreateOk(t, h)
  \/ \E t \in Threads : CreateFail(t)
  \/ \E t \in Threads, ok \in BOOLEAN : Import(t, ok)
  \/ \E t \in Threads : Cursor(t)
  \/ \E t \in Threads, issued \in BOOLEAN : CursorFail(t, issued)
  \/ \E t \in Threads : WritePandas(t)
  \/ CloseHandle

CfgIdle ==
  /\ cpc = "off" /\ heap = <<>> /\ explicit = 0 /\ secrets = 0
  /\ environ = 0 /\ loaded = 0 /\ base = 0 /\ snap = 0 /\ resolved = 0
  /\ mgrConfig = 0 /\ kwargs = 0

(***************************************************************************)
(* Configuration resolver (config.py).  A SnowflakeConfig object is a      *)
(* record of its named fields plus extra; "None" is Python's None.  The    *)
(* field account stands for the sixteen fields whose default is None,      *)
(* client_session_keepalive is the one field whose default is True.        *)
(* Objects live in heap, so that two names for one object can be told from *)
(* two equal objects.  A source mapping (the snowflake section of          *)
(* st.secrets, or the SNOWFLAKE_ variables of os.environ with the prefix   *)
(* stripped and lower-cased) gives each key a value or "absent".           *)
(***************************************************************************)
Fields == {"account", "user", "password", "client_session_keepalive"}

ExtraKeys == {"foo"}

Keys == Fields \cup ExtraKeys

NoExtra == [k \in ExtraKeys |-> "absent"]

\* SnowflakeConfig(): the dataclass defaults
Defaults ==
  [account |-> "None", user |-> "None", password |-> "None",
   client_session_keepalive |-> "True", extra |-> NoExtra]

\* dict.update
Update(d, e) == [k \in ExtraKeys |-> IF e[k] # "absent" THEN e[k] ELSE d[k]]

\* load_from_env / load_from_secrets: SnowflakeConfig(**config_kwargs) with
\* the recognised keys, then config.extra.update(extra) with the others.
FromMapping(m) ==
  [f \in Fields \cup {"extra"} |->
     IF f = "extra" THEN Update(NoExtra, [k \in ExtraKeys |-> m[k]])
     ELSE IF m[f] # "absent" THEN m[f]
     ELSE Defaults[f]]

\* resolve_config lines 165-170 and 172-176: merge one loaded source into base
Merge(b, src) ==
  [f \in Fields \cup {"extra"} |->
     IF f = "extra" THEN Update(b.extra, src.extra)
     ELSE IF src[f] # "None" THEN src[f]
     ELSE b[f]]

\* The configuration objects a caller may pass.
ExplicitConfigs ==
  [account : {"None", "acct_expl"},
   user : {"None", "u_expl"},
   password : {"None", "p_expl"},
   client_session_keepalive : {"True", "False", "None"},
   extra : [ExtraKeys -> {"absent", "foo_expl"}]]

\* The contents of st.secrets["snowflake"]; present is FALSE when Streamlit
\* is not installed or there is no snowflake section.
SecretStores ==
  {[present |-> FALSE, m |-> [k \in Keys |-> "absent"]]} \cup
  [present : {TRUE},
   m : {m \in [Keys -> {"absent", "acct_secr", "u_secr", "True", "False", "foo_secr"}] :
          /\ m["account"] \in {"absent", "acct_secr"}
          /\ m["user"] \in {"absent", "u_secr"}
          /\ m["password"] = "absent"
          /\ m["client_session_keepalive"] \in {"absent", "True", "False"}
          /\ m["foo"] \in {"absent", "foo_secr"}}]

\* The SNOWFLAKE_ variables of os.environ; their values are strings.
Environments ==
  {m \in [Keys -> {"absent", "acct_env", "p_env", "false", "foo_env"}] :
     /\ m["account"] \in {"absent", "acct_env"}
     /\ m["user"] = "absent"
     /\ m["password"] \in {"absent", "p_env"}
     /\ m["client_session_keepalive"] \in {"absent", "false"}
     /\ m["foo"] \in {"absent", "foo_env"}}

\* A caller is about to call resolve_config(config): config is None
\* (explicit = 0) or the caller's object heap[1].
CfgInit ==
  /\ cpc = "call"
  /\ secrets \in SecretStores
  /\ environ \in Environments
  /\ \/ explicit = 0 /\ heap = <<>>
     \/ explicit = 1 /\ \E c \in ExplicitConfigs : heap = <<c>>
  /\ snap = IF explicit = 0 THEN Defaults ELSE heap[1]
  /\ loaded = [sec |-> 0, env |-> 0]
  /\ base = 0
  /\ resolved = 0
  /\ mgrConfig = 0
  /\ kwargs = [at |-> "none"]

\* resolve_config lines 158-159: load_from_secrets() and load_from_env()
\* each build a new object.
Load ==
  /\ cpc = "call"
  /\ IF secrets.present
     THEN /\ heap' = heap \o <<FromMapping(secrets.m), FromMapping(environ)>>
          /\ loaded' = [sec |-> Len(heap) + 1, env |-> Len(heap) + 2]
     ELSE /\ heap' = Append(heap, FromMapping(environ))
          /\ loaded' = [sec |-> 0, env |-> Len(heap) + 1]
  /\ cpc' = "loaded"
  /\ UNCHANGED <<explicit, secrets, environ, base, snap, resolved, mgrConfig, kwargs>>
  /\ UNCHANGED <<mgrVars, thrVars, keyVars, hlpVars>>

\* lines 160-163: base is a new SnowflakeConfig() when config is None, else
\* base is the caller's object itself.
Base ==
  /\ cpc = "loaded"
  /\ IF explicit = 0
     THEN heap' = Append(heap, Defaults) /\ base' = Len(heap) + 1
     ELSE heap' = heap /\ base' = explicit
  /\ cpc' = "based"
  /\ UNCHANGED <<explicit, secrets, environ, loaded, snap, resolved, mgrConfig, kwargs>>
  /\ UNCHANGED <<mgrVars, thrVars, keyVars, hlpVars>>

\* lines 165-170: merge the secrets, when there are any
MergeSecrets ==
  /\ cpc = "based"
  /\ heap' = IF loaded.sec # 0
             THEN [heap EXCEPT ![base] = Merge(@, heap[loaded.sec])]
             ELSE heap
  /\ cpc' = "secrets_merged"
  /\ UNCHANGED <<explicit, secrets, environ, loaded, base, snap, resolved, mgrConfig, kwargs>>
  /\ UNCHANGED <<mgrVars, thrVars, keyVars, hlpVars>>

\* lines 172-176: merge the environment
MergeEnv ==
  /\ cpc = "secrets_merged"
  /\ heap' = [heap EXCEPT ![base] = Merge(@, heap[loaded.env])]
  /\ cpc' = "env_merged"
  /\ UNCHANGED <<explicit, secrets, environ, loaded, base, snap, resolved, mgrConfig, kwargs>>
  /\ UNCHANGED <<mgrVars, thrVars, keyVars, hlpVars>>

\* line 177: return base
ResolveReturn ==
  /\ cpc = "env_merged"
  /\ resolved' = base
  /\ cpc' = "done"
  /\ UNCHANGED <<heap, explicit, secrets, environ, loaded, base, snap, mgrConfig, kwargs>>
  /\ UNCHANGED <<mgrVars, thrVars, keyVars, hlpVars>>

\* connection.py lines 112-114 and 42-43: _create_manager builds the
\* manager around the resolved object; manager.config is that object.
CreateManager ==
  /\ cpc = "done"
  /\ mgrConfig' = resolved
  /\ cpc' = "managed"
  /\ UNCHANGED <<heap, explicit, secrets, environ, loaded, base, snap, resolved, kwargs>>
  /\ UNCHANGED <<mgrVars, thrVars, keyVars, hlpVars>>

ToDict_NoDefault(c) ==
  [k \in Keys |->
     IF k \in ExtraKeys /\ c.extra[k] # "absent" THEN c.extra[k]
     ELSE IF k \in Fields /\ c[k] # "None" THEN c[k]
     ELSE "absent"]

\* SnowflakeConfig.to_dict, lines 70-81: the named fields that are not None,
\* updated with extra, and client_session_keepalive = True when the key is
\* still missing.  A dict is given by the value, or "absent", of every key.
ToDict(c) ==
  [k \in Keys |->
     IF k \in ExtraKeys /\ c.extra[k] # "absent" THEN c.extra[k]
     ELSE IF k \in Fields /\ c[k] # "None" THEN c[k]
     ELSE IF k = "client_session_keepalive" THEN "True"
     ELSE "absent"]

\* to_dict() is called once: by the caller on its own object before it
\* passes it on, or by _create_connection (connection.py line 57) on
\* manager.config.
CallToDict ==
  /\ kwargs.at = "none"
  /\ \/ cpc = "call" /\ explicit # 0
        /\ kwargs' = [at |-> "explicit", c |-> heap[explicit],
                       d |-> ToDict(heap[explicit])]
     \/ cpc = "managed"
        /\ kwargs' = [at |-> "manager", c |-> heap[mgrConfig],
                       d |-> ToDict(heap[mgrConfig])]
  /\ UNCHANGED <<cpc, heap, explicit, secrets, environ, loaded, base, snap, resolved, mgrConfig>>
  /\ UNCHANGED <<mgrVars, thrVars, keyVars, hlpVars>>

CfgNext ==
  \/ Load \/ Base \/ MergeSecrets \/ MergeEnv \/ ResolveReturn
  \/ CreateManager \/ CallToDict

MgrIdle ==
  /\ connection = 0 /\ lockOwner = 0 /\ handles = <<>> /\ pred = <<>>
  /\ creations = 0 /\ calls = 0
  /\ pc = 0 /\ op = 0 /\ overwrite = 0 /\ phase = 0 /\ ret = 0 /\ prev = 0
  /\ prevLive = 0 /\ conn = 0 /\ nCreate = 0 /\ made = 0 /\ seen = 0 /\ wlog = 0

(***************************************************************************)
(* Bind parameters and the cache key (cache.py, connection.py execute).    *)
(* A params argument is None (none = TRUE) or a dict, given by its items   *)
(* in insertion order.  A value is tagged with its Python type: an int, a  *)
(* str, or a date, which json cannot encode and default=str turns into     *)
(* text.                                                                   *)
(***************************************************************************)
ParamKeys == <<"a", "b", "c">>     \* in the order Python compares str

ParamValues ==
  { [t |-> "int", v |-> "1"], [t |-> "str", v |-> "1"],
    [t |-> "date", v |-> "2020-01-01"] }

KeySet == {ParamKeys[i] : i \in 1..Len(ParamKeys)}

\* k1 < k2 on str keys
KeyLess(k1, k2) ==
  \E i, j \in 1..Len(ParamKeys) : i < j /\ ParamKeys[i] = k1 /\ ParamKeys[j] = k2

NoneParams == [none |-> TRUE, items |-> <<>>]

Dicts ==
  UNION { {d \in [1..n -> [k : KeySet, v : ParamValues]] :
             \A i, j \in 1..n : i # j => d[i].k # d[j].k} : n \in 0..MaxParams }

ParamInputs == {NoneParams} \cup {[none |-> FALSE, items |-> d] : d \in Dicts}

\* json.dumps(v, sort_keys=True, default=str)
Dumps(x) ==
  CASE x.t = "int" -> x.v
    [] x.t = "str" -> "\"" \o x.v \o "\""
    [] x.t = "date" -> "\"" \o x.v \o "\""

\* json.loads: the JSON value written as text s
Loads(s) ==
  CHOOSE x \in [t : {"int", "str"}, v : {y.v : y \in ParamValues}] : Dumps(x) = s

RECURSIVE Insert(_, _)
\* insert the pair e into the sorted tuple q
Insert(e, q) ==
  IF q = <<>> THEN <<e>>
  ELSE IF KeyLess(e.k, Head(q).k) THEN <<e>> \o q
  ELSE <<Head(q)>> \o Insert(e, Tail(q))

Sorted_Unsorted(q) == q

RECURSIVE Sorted(_)
\* sorted(...) of (key, text) pairs; the keys of a dict are distinct, so the
\* pairs are ordered by key
Sorted(q) == IF q = <<>> THEN <<>> ELSE Insert(Head(q), Sorted(Tail(q)))

\* _hashable_params, cache.py lines 40-44
HashableParams(p) ==
  IF p.none \/ p.items = <<>> THEN <<>>
  ELSE Sorted([i \in 1..Len(p.items) |->
                 [k |-> p.items[i].k, v |-> Dumps(p.items[i].v)]])

\* cache.py line 57: bind = {k: json.loads(v) for k, v in hashed_params}
Bind(h) ==
  [none |-> FALSE,
   items |-> [i \in 1..Len(h) |-> [k |-> h[i].k, v |-> Loads(h[i].v)]]]

\* cache.py line 58: manager.execute(sql_text, bind or None)
RunArg(b) == IF b.none \/ b.items = <<>> THEN NoneParams ELSE b

ExecuteArg_Identity(p) == p

\* connection.py line 102: cur.execute(sql, params or None)
ExecuteArg(p) == IF p.none \/ p.items = <<>> THEN NoneParams ELSE p

\* Two calls are made one after the other, with params[1] and params[2];
\* kpc.first remembers how the first call ended.
KeyInit ==
  /\ kpc = [call |-> 1, at |-> "call", first |-> "pending"]
  /\ params \in [1..2 -> ParamInputs]
  /\ hashed = [i \in 1..2 |-> <<>>]
  /\ bind = [i \in 1..2 |-> NoneParams]
  /\ sent = [i \in 1..2 |-> NoneParams]

\* cached_read_df line 54: hashed = _hashable_params(params)
Hash ==
  /\ kpc.at = "call"
  /\ hashed' = [hashed EXCEPT ![kpc.call] = HashableParams(params[kpc.call])]
  /\ kpc' = [kpc EXCEPT !.at = "hashed"]
  /\ UNCHANGED <<params, bind, sent>>
  /\ UNCHANGED <<mgrVars, thrVars, cfgVars, hlpVars>>

\* cached_read_df line 80 and _run line 57: _impl(sql, hashed) rebuilds bind
Run ==
  /\ kpc.at = "hashed"
  /\ bind' = [bind EXCEPT ![kpc.call] = Bind(hashed[kpc.call])]
  /\ kpc' = [kpc EXCEPT !.at = "run"]
  /\ UNCHANGED <<params, hashed, sent>>
  /\ UNCHANGED <<mgrVars, thrVars, cfgVars, hlpVars>>

\* _run line 58 and execute line 102: what cur.execute receives
RunExecute ==
  /\ kpc.at = "run"
  /\ sent' = [sent EXCEPT ![kpc.call] = ExecuteArg(RunArg(bind[kpc.call]))]
  /\ kpc' = [kpc EXCEPT !.at = "cached_sent"]
  /\ UNCHANGED <<params, hashed, bind>>
  /\ UNCHANGED <<mgrVars, thrVars, cfgVars, hlpVars>>

\* manager.execute(sql, params) called directly: line 102
DirectExecute ==
  /\ kpc.at = "call"
  /\ sent' = [sent EXCEPT ![kpc.call] = ExecuteArg(params[kpc.call])]
  /\ kpc' = [kpc EXCEPT !.at = "direct_sent"]
  /\ UNCHANGED <<params, hashed, bind>>
  /\ UNCHANGED <<mgrVars, thrVars, cfgVars, hlpVars>>

\* the first call is over, the second begins (by the same route)
SecondCall ==
  /\ kpc.call = 1
  /\ kpc.at \in {"cached_sent", "direct_sent"}
  /\ kpc' = [call |-> 2, at |-> "call", first |-> kpc.at]
  /\ UNCHANGED <<params, hashed, bind, sent>>
  /\ UNCHANGED <<mgrVars, thrVars, cfgVars, hlpVars>>

KeyNext == Hash \/ Run \/ RunExecute \/ DirectExecute \/ SecondCall

KeyIdle ==
  /\ kpc = "off" /\ params = 0 /\ hashed = 0 /\ bind = 0 /\ sent = 0

(***************************************************************************)
(* The helpers (helpers.py, cache.py) and get_connection_manager            *)
(* (connection.py), called one after another by the application script.     *)
(* A config argument is None or one of two configuration objects.  What     *)
(* manager.execute does inside the manager is modelled above; here it       *)
(* yields a cursor or raises.                                               *)
(***************************************************************************)
ConfigArgs == {"None", "cfgA", "cfgB"}

HelperFns == {"get_connection_manager", "read_df", "cached_read_df", "stage_dataframe"}

\* What a cursor does when asked: fetch_pandas_all returns the result as a
\* table or raises, fetchall returns rows or raises, description holds the
\* column names.
Cursors ==
  [bulk : {"ok", "raises"}, fetchall : {"ok", "raises"},
   rows : {"rows1", "rows2"}, description : {"cols1", "cols2"}]

NoCursor == [bulk |-> "none"]

Error(e) == [kind |-> "error", exc |-> e]

Table(cur, how) ==
  [kind |-> "table", rows |-> cur.rows, cols |-> cur.description, via |-> how]

HlpIdle ==
  /\ stAvail = 0 /\ pdAvail = 0 /\ globalManager = 0 /\ stCache = 0
  /\ managers = 0 /\ glog = 0 /\ hpc = 0 /\ hcall = 0 /\ cursor = 0
  /\ result = 0 /\ tmpFiles = 0 /\ hcalls = 0

\* The process starts: the imports at the top of helpers.py, cache.py and
\* connection.py have found streamlit and pandas or not, and
\* _global_manager = None (connection.py line 108).
HlpInit ==
  /\ stAvail \in BOOLEAN
  /\ pdAvail \in BOOLEAN
  /\ globalManager = 0
  /\ stCache = [c \in ConfigArgs |-> 0]
  /\ managers = <<>>
  /\ glog = <<>>
  /\ hpc = "idle"
  /\ hcall = [fn |-> "none", config |-> "None", raw |-> FALSE, mgr |-> 0, tmp |-> 0]
  /\ cursor = NoCursor
  /\ result = [kind |-> "none"]
  /\ tmpFiles = {}
  /\ hcalls = 0

\* The script calls a helper: get_connection_manager(config),
\* read_df(sql, config=config, raw_cursor=raw), cached_read_df(sql) or
\* stage_dataframe(df, stage, config=config).
HelperCall(fn, c, raw) ==
  /\ hpc \in {"idle", "done"}
  /\ hcalls < MaxHelperCalls
  /\ hcalls' = hcalls + 1
  /\ hcall' = [fn |-> fn, config |-> c, raw |-> raw, mgr |-> 0, tmp |-> 0]
  /\ cursor' = NoCursor
  /\ result' = [kind |-> "none"]
  /\ hpc' = "manager"
  /\ UNCHANGED <<stAvail, pdAvail, globalManager, stCache, managers, glog, tmpFiles>>
  /\ UNCHANGED <<mgrVars, thrVars, cfgVars, keyVars>>

\* read_df line 98 and cached_read_df line 72: the cached route is taken
\* when streamlit is there and no raw cursor is asked for.
CachedRoute(call) ==
  \/ call.fn = "cached_read_df"
  \/ call.fn = "read_df" /\ stAvail /\ ~call.raw

\* The argument the helper passes to get_connection_manager: cached_read_df
\* passes None (cache.py line 53); read_df passes its config only on the
\* uncached route (helpers.py lines 98-110); stage_dataframe (line 265) and
\* a direct call pass the config.
ManagerArg(call) == IF CachedRoute(call) THEN "None" ELSE call.config

\* get_connection_manager lines 128-142: is a new manager built for
\* argument c?  With streamlit, on a cache miss; without, when there is no
\* global manager yet or a config is given.
BuildsManager(c) ==
  IF stAvail THEN stCache[c] = 0
  ELSE globalManager = 0 \/ c # "None"

\* The helper obtains its manager.  stage_dataframe first requires pandas
\* (lines 254-255).
ObtainManager ==
  /\ hpc = "manager"
  /\ IF hcall.fn = "stage_dataframe" /\ ~pdAvail
     THEN /\ result' = Error("RuntimeError")
          /\ hpc' = "done"
          /\ UNCHANGED <<globalManager, stCache, managers, glog, hcall>>
     ELSE LET c == ManagerArg(hcall)
              m == IF BuildsManager(c) THEN Len(managers) + 1
                   ELSE IF stAvail THEN stCache[c] ELSE globalManager
          IN /\ managers' = IF BuildsManager(c)
                            THEN Append(managers, [config |-> c]) ELSE managers
             /\ stCache' = IF stAvail THEN [stCache EXCEPT ![c] = m] ELSE stCache
             /\ globalManager' = IF stAvail THEN globalManager ELSE m
             /\ glog' = Append(glog, [arg |-> c, mgr |-> m])
             /\ hcall' = [hcall EXCEPT !.mgr = m]
             /\ IF hcall.fn = "get_connection_manager"
                THEN result' = [kind |-> "manager", mgr |-> m] /\ hpc' = "done"
                ELSE IF hcall.fn = "stage_dataframe"
                THEN result' = result /\ hpc' = "upload"
                ELSE result' = result /\ hpc' = "execute"
  /\ UNCHANGED <<stAvail, pdAvail, cursor, tmpFiles, hcalls>>
  /\ UNCHANGED <<mgrVars, thrVars, cfgVars, keyVars>>

\* manager.execute(sql, params) returns a cursor (cache.py line 58,
\* helpers.py line 113); with raw_cursor on the uncached route read_df
\* returns it (lines 114-115).  Without pandas fetch_pandas_all cannot work.
Execute(cur) ==
  /\ hpc = "execute"
  /\ ~pdAvail => cur.bulk = "raises"
  /\ cursor' = cur
  /\ IF hcall.raw /\ ~CachedRoute(hcall)
     THEN result' = [kind |-> "cursor"] /\ hpc' = "done"
     ELSE result' = result /\ hpc' = "fetch"
  /\ UNCHANGED <<stAvail, pdAvail, globalManager, stCache, managers, glog, hcall, tmpFiles, hcalls>>
  /\ UNCHANGED <<mgrVars, thrVars, cfgVars, keyVars>>

\* manager.execute raises: the error reaches the caller.
ExecuteFail ==
  /\ hpc = "execute"
  /\ result' = Error("connector")
  /\ hpc' = "done"
  /\ UNCHANGED <<stAvail, pdAvail, globalManager, stCache, managers, glog, hcall, cursor, tmpFiles, hcalls>>
  /\ UNCHANGED <<mgrVars, thrVars, cfgVars, keyVars>>

FetchCached_Surfaces(cur, pd) ==
  IF pd /\ cur.bulk = "ok" THEN Table(cur, "bulk")
  ELSE IF pd THEN Error("connector")
  ELSE IF cur.fetchall = "raises" THEN Error("connector")
  ELSE [kind |-> "rows", rows |-> cur.rows]

\* cached_read_df._run, cache.py lines 60-70
FetchCached(cur, pd) ==
  IF pd /\ cur.bulk = "ok" THEN Table(cur, "bulk")
  ELSE IF cur.fetchall = "raises" THEN Error("connector")
  ELSE IF ~pd THEN [kind |-> "rows", rows |-> cur.rows]
  ELSE Table(cur, "fetchall")

\* read_df, helpers.py lines 116-125
FetchUncached(cur, pd) ==
  IF cur.bulk = "ok" THEN Table(cur, "bulk")
  ELSE IF cur.fetchall = "raises" THEN Error("connector")
  ELSE IF ~pd THEN Error("RuntimeError")
  ELSE Table(cur, "fetchall")

\* The result is fetched from the cursor and returned.
Fetch ==
  /\ hpc = "fetch"
  /\ result' = IF CachedRoute(hcall) THEN FetchCached(cursor, pdAvail)
               ELSE FetchUncached(cursor, pdAvail)
  /\ hpc' = "done"
  /\ UNCHANGED <<stAvail, pdAvail, globalManager, stCache, managers, glog, hcall, cursor, tmpFiles, hcalls>>
  /\ UNCHANGED <<mgrVars, thrVars, cfgVars, keyVars>>

\* stage_dataframe lines 266-289: the handle, the serialised buffer, the
\* cursor and cur.upload_stream, which works, raises AttributeError
\* ("unsupported") or raises something else.
Upload(outcome) ==
  /\ hpc = "upload"
  /\ CASE outcome = "ok" ->
            result' = [kind |-> "path"] /\ hpc' = "done"
       [] outcome = "raises" ->
            result' = Error("connector") /\ hpc' = "done"
       [] outcome = "unsupported" ->
            result' = result /\ hpc' = "tmp"
  /\ UNCHANGED <<stAvail, pdAvail, globalManager, stCache, managers, glog, hcall, cursor, tmpFiles, hcalls>>
  /\ UNCHANGED <<mgrVars, thrVars, cfgVars, keyVars>>

\* lines 292-295: NamedTemporaryFile(delete=False) is written and closed;
\* the file stays on disk under tmp_path.
TmpWrite ==
  /\ hpc = "tmp"
  /\ hcall' = [hcall EXCEPT !.tmp = hcalls]
  /\ tmpFiles' = tmpFiles \cup {hcalls}
  /\ hpc' = "put"
  /\ UNCHANGED <<stAvail, pdAvail, globalManager, stCache, managers, glog, cursor, result, hcalls>>
  /\ UNCHANGED <<mgrVars, thrVars, cfgVars, keyVars>>

\* line 297: cur.execute("PUT file://tmp_path ...") returns or raises; when
\* it raises the error leaves stage_dataframe from there.
Put(ok) ==
  /\ hpc = "put"
  /\ IF ok THEN result' = result /\ hpc' = "unlink"
     ELSE result' = Error("connector") /\ hpc' = "done"
  /\ UNCHANGED <<stAvail, pdAvail, globalManager, stCache, managers, glog, hcall, cursor, tmpFiles, hcalls>>
  /\ UNCHANGED <<mgrVars, thrVars, cfgVars, keyVars>>

\* lines 298-299: os.unlink(tmp_path), then return remote_path
Unlink ==
  /\ hpc = "unlink"
  /\ tmpFiles' = tmpFiles \ {hcall.tmp}
  /\ result' = [kind |-> "path"]
  /\ hpc' = "done"
  /\ UNCHANGED <<stAvail, pdAvail, globalManager, stCache, managers, glog, hcall, cursor, hcalls>>
  /\ UNCHANGED <<mgrVars, thrVars, cfgVars, keyVars>>

HlpNext ==
  \/ \E fn \in HelperFns, c \in ConfigArgs, raw \in BOOLEAN :
        /\ raw => fn = "read_df"
        /\ fn = "cached_read_df" => c = "None"
        /\ HelperCall(fn, c, raw)
  \/ ObtainManager
  \/ \E cur \in Cursors : Execute(cur)
  \/ ExecuteFail
  \/ Fetch
  \/ \E outcome \in {"ok", "unsupported", "raises"} : Upload(outcome)
  \/ TmpWrite
  \/ \E ok \in BOOLEAN : Put(ok)
  \/ Unlink

Init == MgrInit /\ CfgIdle /\ KeyIdle /\ HlpIdle

Next == MgrNext

Spec == Init /\ [][Next]_vars

\* Every kind of handle _is_closed tells apart: is_closed as a method or as
\* a plain value, is_closed raising, is_closed missing (or None); for the
\* last two the closed attribute decides.
ProbeHandles ==
  [shape : {"method", "property"}, is_closed : {FALSE}, closed : {FALSE}] \cup
  [shape : {"method", "property"}, is_closed : {TRUE}, closed : {TRUE}] \cup
  [shape : {"raises", "missing"}, is_closed : {FALSE}, closed : BOOLEAN]

\* get_connection calls made one after another on a manager whose connector
\* may return any kind of handle.
ProbeNext ==
  \/ \E t \in Threads : OnlyCaller(t) /\ Call(t, "get", FALSE)
  \/ \E t \in Threads : Enter(t)
  \/ \E t \in Threads, h \in ProbeHandles : CreateOk(t, h)
  \/ \E t \in Threads : CreateFail(t)
  \/ CloseHandle

InitProbe == MgrInit /\ CfgIdle /\ KeyIdle /\ HlpIdle

SpecProbe == InitProbe /\ [][ProbeNext]_vars

InitWrite == MgrInit /\ CfgIdle /\ KeyIdle /\ HlpIdle

SpecWrite == InitWrite /\ [][WriteNext]_vars

InitConfig == CfgInit /\ MgrIdle /\ KeyIdle /\ HlpIdle

SpecConfig == InitConfig /\ [][CfgNext]_vars

InitCache == KeyInit /\ MgrIdle /\ CfgIdle /\ HlpIdle

InitHelpers == HlpInit /\ MgrIdle /\ CfgIdle /\ KeyIdle

SpecHelpers == InitHelpers /\ [][HlpNext]_vars

SpecCache == InitCache /\ [][KeyNext]_vars

(***************************************************************************)
(* Claims about the connection lifecycle manager (checked under Spec)      *)
(***************************************************************************)

\* A thread's get_connection call has returned and, before it, the same
\* thread's previous get_connection call returned prev; at the liveness
\* check of the second call the handle prev reported live.
SecondCallLive(t) == ret[t] # 0 /\ prev[t] # 0 /\ prevLive[t]

\* C1 as stated: two successive get_connection calls on a manager (the only
\* two calls made on it) return the identical handle and perform exactly one
\* creation in total, provided the handle reports live at the second call.
C1_AsStated ==
  \A t \in Threads :
    (SecondCallLive(t) /\ calls = 2) => (ret[t] = prev[t] /\ creations = 1)

\* C1 amended: two successive get_connection calls return the identical
\* handle and the second call performs no creation, provided the handle
\* reports live at the second call; when these are the only two calls on the
\* manager, one or two creations happened in total, all in the first call, and
\* each produced a handle.
C1_SecondCallReuses ==
  \A t \in Threads :
    SecondCallLive(t) =>
      /\ ret[t] = prev[t]
      /\ nCreate[t] = 0
      /\ calls = 2 => (creations \in {1, 2} /\ creations = Len(handles))

C1_Witness ==
  \E t \in Threads :
    SecondCallLive(t) /\ calls = 2 /\ ret[t] = prev[t] /\ creations = 2

\* C2: when the first handle created for a manager without a handle reports
\* closed, the same get_connection call makes exactly one more creation (two
\* creation calls, never more, whatever the second handle reports) and returns
\* the second handle, so a second handle reporting live is returned live.
C2_SingleRetry ==
  \A t \in Threads :
    /\ nCreate[t] <= 2
    /\ (Len(made[t]) >= 1 /\ pred[made[t][1].h] = 0 /\ made[t][1].closed)
         => /\ pc[t] = "create_retry" => nCreate[t] = 1
            /\ pc[t] # "create_retry" => nCreate[t] = 2
            /\ ret[t] # 0 => /\ Len(made[t]) = 2
                              /\ pred[made[t][2].h] = made[t][1].h
                              /\ ret[t] = made[t][2].h

C2_Witness ==
  \E t \in Threads :
    /\ ret[t] # 0 /\ Len(made[t]) = 2
    /\ pred[made[t][1].h] = 0 /\ made[t][1].closed
    /\ ret[t] = made[t][2].h /\ Live(handles[ret[t]])

\* C3: at most one thread is inside _create_connection at any time, and it
\* is the thread holding the manager lock; the other callers are held at the
\* lock.
C3_OneCreator ==
  /\ Cardinality({t \in Threads : pc[t] \in Creating}) <= 1
  /\ \A t \in Threads : pc[t] \in Creating => lockOwner = t

C3_Witness ==
  \E t, u \in Threads :
    t # u /\ pc[t] \in Creating /\ pc[u] = "acquire" /\ lockOwner = t

\* The handles that replaced handle h.
Replacements(h) == {i \in 1..Len(handles) : pred[i] = h}

\* C4: the liveness check and the replacement are one atomic step under the
\* lock: for all callers whose get_connection call began while the manager
\* held the stale handle h, exactly one handle was created in place of h, and
\* when that replacement is not stale every such caller returns it.
C4_OneReplacementPerStaleness ==
  \A t \in Threads :
    (ret[t] # 0 /\ seen[t] # 0) =>
      /\ Cardinality(Replacements(seen[t])) = 1
      /\ \A r \in Replacements(seen[t]) :
            ~IsClosed(handles[r]) => ret[t] = r

C4_Witness ==
  \E t, u \in Threads :
    /\ t # u
    /\ ret[t] # 0 /\ ret[u] # 0
    /\ seen[t] # 0 /\ seen[u] = seen[t]
    /\ pred[seen[t]] = 0
    /\ ret[t] = ret[u] /\ ret[t] # seen[t]
    /\ ~IsClosed(handles[ret[t]])

\* C13: a failure raised while creating a handle (the RuntimeError for a
\* connector that cannot be imported, or whatever connector.connect raises)
\* ends the get_connection or execute call with that failure: the failed
\* creation is the last creation of the call, the lock is released, no
\* handle is returned and execute does not go on to the cursor.
C13_CreationFailurePropagates ==
  \A t \in Threads :
    nCreate[t] > Len(made[t]) =>
      /\ nCreate[t] = Len(made[t]) + 1
      /\ pc[t] = "raised"
      /\ ret[t] = 0
      /\ lockOwner # t

C13_Witness ==
  \E t \in Threads :
    /\ op[t] = "execute" /\ pc[t] = "raised" /\ ret[t] = 0
    /\ nCreate[t] = 2 /\ Len(made[t]) = 1 /\ made[t][1].closed

\* C18: the manager lock is held only inside get_connection, while a handle
\* is being created: a thread whose query is in flight (execute past
\* get_connection, at cursor() / cursor.execute) does not hold it, and as
\* long as no thread is creating a handle a thread waiting in get_connection
\* can take the lock.
C18_QueryHoldsNoLock ==
  /\ \A t \in Threads : pc[t] \notin Creating => lockOwner # t
  /\ \A t, u \in Threads :
       (/\ t # u /\ pc[t] = "cursor" /\ pc[u] = "acquire"
        /\ \A v \in Threads : pc[v] \notin Creating) => CanAcquire(u)

C18_Witness ==
  \E t, u \in Threads :
    /\ t # u
    /\ pc[t] = "cursor" /\ pc[u] = "cursor"
    /\ ret[t] # 0 /\ ret[u] = ret[t]
    /\ lockOwner = 0

(***************************************************************************)
(* Claims about the liveness probe (checked under SpecProbe)               *)
(***************************************************************************)

\* The staleness check cannot determine liveness: querying is_closed raises,
\* or the handle has neither is_closed nor a closed attribute saying closed.
Undetermined(h) == h.shape = "raises" \/ (h.shape = "missing" /\ ~h.closed)

\* is_closed is missing or raises and closed is false or missing as well.
Optimistic(h) == h.shape \in {"raises", "missing"} /\ ~h.closed

\* C20 as stated: whenever the staleness check cannot determine liveness
\* (no liveness attribute, or querying is_closed raises) the handle is
\* reported not stale and get_connection never replaces it.
C20_AsStated ==
  \A j \in 1..Len(handles) :
    Undetermined(handles[j]) =>
      ~IsClosed(handles[j]) /\ Replacements(j) = {}

\* C20 amended: when is_closed is missing or raises, _is_closed reports the
\* closed attribute (false when there is none): a handle whose closed is
\* false or missing is reported not stale, is never replaced, and a later
\* get_connection returns it without creating; a handle is only ever
\* replaced when _is_closed reports it closed.
C20_ClosedAttributeDecides ==
  /\ \A j \in 1..Len(handles) :
       /\ handles[j].shape \in {"raises", "missing"}
            => IsClosed(handles[j]) = handles[j].closed
       /\ Optimistic(handles[j]) => Replacements(j) = {}
       /\ Replacements(j) # {} => IsClosed(handles[j])
  /\ \A t \in Threads :
       (pc[t] = "create_replace" \/ pc[t] = "create_retry")
          => ~Optimistic(handles[connection])
  /\ \A t \in Threads :
       (ret[t] # 0 /\ prev[t] # 0 /\ Optimistic(handles[prev[t]]))
          => (ret[t] = prev[t] /\ nCreate[t] = 0)

C20_Witness ==
  \E t \in Threads :
    /\ ret[t] # 0 /\ prev[t] = ret[t] /\ nCreate[t] = 0
    /\ handles[ret[t]].shape = "raises" /\ ~handles[ret[t]].closed

\* C21: a step in which a creation call of thread t raises (one more
\* creation attempted, no handle made) leaves the manager's handle field and
\* the handles as they were, releases the lock and ends t's call; the field
\* is then absent or holds a stale handle, so that the next get_connection
\* enters creation or replacement again.
C21_FailedCreationLeavesHandle ==
  [][\A t \in Threads :
       (nCreate'[t] = nCreate[t] + 1 /\ made'[t] = made[t]) =>
         /\ connection' = connection
         /\ handles' = handles
         /\ lockOwner' = 0
         /\ pc'[t] = "raised"
         /\ connection' = 0 \/ IsClosed(handles'[connection'])]_vars

\* A creation failed earlier on this manager and left the stale handle in
\* place; a later get_connection call has passed the lock and is replacing
\* that handle.
C21_Witness ==
  \E t \in Threads :
    /\ pc[t] = "create_replace" /\ lockOwner = t /\ nCreate[t] = 0
    /\ Len(handles) = 1 /\ creations = 2
    /\ connection = 1 /\ IsClosed(handles[connection])

(***************************************************************************)
(* Claims about write_df (checked under SpecWrite)                         *)
(***************************************************************************)
Events(t) == {wlog[t][i].ev : i \in 1..Len(wlog[t])}

\* C10: write_df issues the TRUNCATE statement only when overwrite is true,
\* and a write_df that reaches write_pandas has issued the truncate before it
\* exactly when overwrite is true; nothing is issued after write_pandas.
C10_TruncateIffOverwriteAndFirst ==
  \A t \in Threads :
    /\ "truncate" \in Events(t) => (op[t] = "write" /\ overwrite[t])
    /\ \A j \in 1..Len(wlog[t]) :
         wlog[t][j].ev = "write_pandas" =>
           /\ j = Len(wlog[t])
           /\ overwrite[t] <=> (j = 2 /\ wlog[t][1].ev = "truncate")
           /\ ~overwrite[t] <=> j = 1

C10_Witness ==
  \E t \in Threads :
    /\ pc[t] = "done" /\ op[t] = "write" /\ overwrite[t]
    /\ Len(wlog[t]) = 2
    /\ wlog[t][1].ev = "truncate" /\ wlog[t][2].ev = "write_pandas"

\* C22: in a write_df with overwrite that issued the truncate and reached
\* write_pandas, the handle given to write_pandas is the handle the truncate
\* was executed on, and it is the manager's current handle.
C22_WriteUsesTruncateHandle ==
  \A t \in Threads :
    (/\ pc[t] = "done" /\ op[t] = "write" /\ overwrite[t]
     /\ Len(wlog[t]) = 2)
      => /\ wlog[t][2].h = wlog[t][1].h
         /\ wlog[t][2].h = connection

(***************************************************************************)
(* Claims about resolve_config (checked under SpecConfig)                  *)
(***************************************************************************)
SecretsSupply(f) == secrets.present /\ secrets.m[f] # "absent"

EnvSupplies(f) == environ[f] # "absent"

ExplicitSupplies(f) == explicit # 0 /\ snap[f] # "None"

\* C5: for every named field, when the explicit object, the secrets and the
\* environment all supply a value the result holds the environment's value,
\* and when only the explicit object and the secrets supply one it holds the
\* secrets' value.
C5_EnvOverSecretsOverExplicit ==
  cpc = "done" =>
    \A f \in Fields :
      (ExplicitSupplies(f) /\ SecretsSupply(f)) =>
        heap[resolved][f] = IF EnvSupplies(f) THEN environ[f] ELSE secrets.m[f]

\* The value a field-by-field merge leaves in a field: the last source, in
\* the order explicit object, secrets, environment, that supplies one.
MergedValue(f) ==
  IF EnvSupplies(f) THEN environ[f]
  ELSE IF SecretsSupply(f) THEN secrets.m[f]
  ELSE snap[f]

\* C6: a later source overwrites a field only if it supplies a value for it;
\* a field it omits keeps the value the earlier source set, for every field,
\* client_session_keepalive included.
C6_OmittedFieldKept ==
  cpc = "done" =>
    \A f \in Fields :
      (EnvSupplies(f) \/ SecretsSupply(f) \/ ExplicitSupplies(f))
        => heap[resolved][f] = MergedValue(f)

\* C7: resolve_config returns a fresh instance and leaves the caller's
\* explicit object as it was.
C7_FreshInstanceCallerUntouched ==
  (cpc = "done" /\ explicit # 0) =>
    (resolved # explicit /\ heap[explicit] = snap)

\* The end-to-end scenario of C12: a configuration with only account, user
\* and password set, and nothing in the secrets or the environment.
OnlyCredentials ==
  /\ explicit # 0
  /\ snap = [account |-> "acct_expl", user |-> "u_expl", password |-> "p_expl",
             client_session_keepalive |-> "True", extra |-> NoExtra]
  /\ \A k \in Keys : ~SecretsSupply(k) /\ ~EnvSupplies(k)

\* C12: the dict to_dict returns holds every named field that is not None
\* with its value, omits every other named field except
\* client_session_keepalive, which it always contains (True when the field
\* is None); for the configuration with only account, user and password,
\* resolved with empty secrets and environment, the connector receives
\* exactly those three keys plus client_session_keepalive = True.
C12_ToDictOmitsNoneKeepsKeepalive ==
  kwargs.at # "none" =>
    /\ \A f \in Fields :
         /\ kwargs.c[f] # "None" => kwargs.d[f] = kwargs.c[f]
         /\ (kwargs.c[f] = "None" /\ f # "client_session_keepalive")
              => kwargs.d[f] = "absent"
    /\ kwargs.d["client_session_keepalive"] # "absent"
    /\ kwargs.c["client_session_keepalive"] = "None"
         => kwargs.d["client_session_keepalive"] = "True"
    /\ (kwargs.at = "manager" /\ OnlyCredentials) =>
         kwargs.d = [k \in Keys |->
                       CASE k = "account" -> "acct_expl"
                         [] k = "user" -> "u_expl"
                         [] k = "password" -> "p_expl"
                         [] k = "client_session_keepalive" -> "True"
                         [] OTHER -> "absent"]

C12_Witness ==
  /\ kwargs.at = "manager" /\ OnlyCredentials
  /\ kwargs.d["account"] = "acct_expl" /\ kwargs.d["foo"] = "absent"

C12_WitnessDefault ==
  /\ kwargs.at = "explicit"
  /\ kwargs.c["client_session_keepalive"] = "None"
  /\ kwargs.c["account"] = "None"
  /\ kwargs.d["client_session_keepalive"] = "True"

\* C16: when get_connection_manager is given a config, every field that
\* config sets keeps its value in the manager's configuration, whatever the
\* secrets and the environment supply for it.
C16_ExplicitOverridesSources ==
  (cpc = "managed" /\ explicit # 0) =>
    \A f \in Fields :
      (ExplicitSupplies(f) /\ (SecretsSupply(f) \/ EnvSupplies(f)))
        => heap[mgrConfig][f] = snap[f]

(***************************************************************************)
(* Claims about the cache key and parameter dispatch (under SpecCache)     *)
(***************************************************************************)
Pairs(p) == {p.items[i] : i \in 1..Len(p.items)}

BothHashed ==
  /\ kpc.call = 2
  /\ kpc.first = "cached_sent"
  /\ kpc.at \in {"hashed", "run", "cached_sent"}

\* C8: two mappings with the same key/value pairs, in whatever insertion
\* order, get the same cache key from _hashable_params.
C8_KeyIgnoresInsertionOrder ==
  (/\ BothHashed
   /\ ~params[1].none /\ ~params[2].none
   /\ Pairs(params[1]) = Pairs(params[2]))
     => hashed[1] = hashed[2]

C8_Witness ==
  /\ BothHashed
  /\ ~params[1].none /\ ~params[2].none
  /\ Pairs(params[1]) = Pairs(params[2])
  /\ Len(params[1].items) = 2
  /\ params[1].items # params[2].items
  /\ hashed[1] = hashed[2]
  /\ Len(hashed[1]) = 2

NoParams(p) == p.none \/ p.items = <<>>

\* C9: {} and None are treated alike: cached_read_df computes the same key
\* for both and the cursor receives None, and execute called directly also
\* hands None to the cursor.
C9_EmptyIsNone ==
  /\ (BothHashed /\ NoParams(params[1]) /\ NoParams(params[2]))
       => hashed[1] = hashed[2]
  /\ \A i \in 1..2 :
       (/\ NoParams(params[i])
        /\ i < kpc.call \/ kpc.at \in {"cached_sent", "direct_sent"})
         => sent[i] = NoneParams

C9_Witness ==
  /\ kpc = [call |-> 2, at |-> "cached_sent", first |-> "cached_sent"]
  /\ params[1] = NoneParams
  /\ params[2] = [none |-> FALSE, items |-> <<>>]
  /\ hashed[1] = hashed[2]
  /\ sent[1] = NoneParams /\ sent[2] = NoneParams

(***************************************************************************)
(* Claims about the helpers and get_connection_manager (under SpecHelpers) *)
(***************************************************************************)

\* C11: after a stage_dataframe call that took the fallback (upload_stream
\* unsupported, temporary file written) the temporary file is gone, whether
\* the PUT returned or raised.
C11_TempFileAlwaysRemoved ==
  (hpc = "done" /\ hcall.fn = "stage_dataframe" /\ hcall.tmp # 0)
    => hcall.tmp \notin tmpFiles

\* A read that fetched a result: read_df (not returning the raw cursor) or
\* cached_read_df has finished with a cursor whose bulk fetch raises and
\* whose fetchall works.
ReadFellBack ==
  /\ hpc = "done"
  /\ hcall.fn \in {"read_df", "cached_read_df"}
  /\ cursor.bulk = "raises"
  /\ result.kind # "cursor"
  /\ cursor.fetchall = "ok"

\* C14: with pandas available, when the bulk fetch raises the read returns
\* no error but the table made of the rows fetchall returned from the same
\* cursor and the column names of that cursor's description, on the cached
\* route and on the uncached one.
C14_BulkFailureFallsBack ==
  (ReadFellBack /\ pdAvail) =>
    result = [kind |-> "table", rows |-> cursor.rows,
              cols |-> cursor.description, via |-> "fetchall"]

C14_Witness ==
  /\ ReadFellBack /\ pdAvail /\ ~CachedRoute(hcall)
  /\ result.kind = "table" /\ result.via = "fetchall"

C14_WitnessCached ==
  /\ ReadFellBack /\ pdAvail /\ CachedRoute(hcall)
  /\ result.kind = "table" /\ result.via = "fetchall"

\* C15: without pandas, when the bulk fetch is unsupported the read returns
\* the rows fetchall returned and raises nothing, in read_df outside
\* Streamlit as well as in cached_read_df.
C15_RawRowsWithoutPandas ==
  (ReadFellBack /\ ~pdAvail) =>
    result = [kind |-> "rows", rows |-> cursor.rows]

\* C17: without Streamlit, any two get_connection_manager calls made with
\* the same configuration returned the same manager, and every call
\* returned a manager built for the configuration it was given.
C17_OneManagerPerConfiguration ==
  ~stAvail =>
    \A i, j \in 1..Len(glog) :
      /\ glog[i].arg = glog[j].arg => glog[i].mgr = glog[j].mgr
      /\ managers[glog[i].mgr].config = glog[i].arg

\* C19: a read_df call given a config runs its query through a manager
\* built from that config, with or without Streamlit and whatever
\* raw_cursor is.
C19_ReadUsesGivenConfig ==
  (hcall.fn = "read_df" /\ hcall.config # "None" /\ hcall.mgr # 0)
    => managers[hcall.mgr].config = hcall.config

====
